---- MODULE Spec2Model ----
(***************************************************************************)
(* asyncBatch (src/src/index.ts): runs a list of task thunks in waves of   *)
(* at most `concurrency` tasks, records each outcome at the task's index,  *)
(* and either aborts on the first failure (failFast) or collects errors.   *)
(*                                                                         *)
(* JavaScript runs each synchronous block to completion, so one action of  *)
(* the model is one such block: the body of the outer while loop up to its *)
(* await, the continuation of one processTask after `await task()`, and    *)
(* the continuation of asyncBatch after `await Promise.all(...)`.          *)
(***************************************************************************)
EXTENDS Integers, Sequences, FiniteSets, TLC

\* ---------------------------------------------------------------- bounds
MaxTasks == 3
MaxConc == 3
MaxSpin == 2

\* ------------------------------------------------------- program constants
DefaultConcurrency == 5

\* ------------------------------------------------------------- JS values
\* A JavaScript value: a number, undefined, null, or an Error with a message.
Num(n) == [t |-> "number", n |-> n, s |-> ""]
Err(m) == [t |-> "Error", n |-> 0, s |-> m]
Undefined == [t |-> "undefined", n |-> 0, s |-> ""]
Null == [t |-> "null", n |-> 0, s |-> ""]
\* An index of `new Array(total)` that was never assigned.
Hole == [t |-> "hole", n |-> 0, s |-> ""]

InstanceofError(v) == v.t = "Error"

Digit(d) ==
  CASE d = 0 -> "0" [] d = 1 -> "1" [] d = 2 -> "2" [] d = 3 -> "3"
    [] d = 4 -> "4" [] d = 5 -> "5" [] d = 6 -> "6" [] d = 7 -> "7"
    [] d = 8 -> "8" [] d = 9 -> "9"

RECURSIVE NumberToString(_)
NumberToString(n) ==
  IF n < 10 THEN Digit(n) ELSE NumberToString(n \div 10) \o Digit(n % 10)

\* String(v) of JavaScript.
String(v) ==
  CASE v.t = "number" -> NumberToString(v.n)
    [] v.t = "undefined" -> "undefined"
    [] v.t = "null" -> "null"
    [] v.t = "Error" -> "Error: " \o v.s
    [] OTHER -> ""

\* Mutant: every caught value is wrapped, Errors included.
ToError_alwaysWraps(error) == Err(String(error))

\* error instanceof Error ? error : new Error(String(error))
ToError(error) == IF InstanceofError(error) THEN error ELSE Err(String(error))

\* ----------------------------------------------------------------- inputs
\* A task: a thunk whose promise resolves with v, a thunk whose promise
\* rejects with v, or a missing (falsy) entry of the list.
Resolves(v) == [kind |-> "resolve", v |-> v]
Rejects(v) == [kind |-> "reject", v |-> v]
Missing == [kind |-> "missing", v |-> Undefined]

TaskInputs ==
  { Resolves(Num(1)), Resolves(Err("E")),
    Rejects(Err("Error 1")), Rejects(Num(404)), Missing }

\* options.concurrency: {} when the option is absent, {n} when it is n.
ConcurrencyInputs == {{}} \cup { {n} : n \in (-1)..MaxConc }

VARIABLES
  tasks,       \* the task list, indexed from 0
  options,     \* [concurrency, failFast, onProgress]
  total, results, completed, failed, firstError,
  queue, inProgress, processing,
  pc,          \* "loop" | "await" | "resolved" | "rejected"
  awaiting,    \* indices whose processTask is suspended at `await task()`
  thrown,      \* the value asyncBatch rejected with, Null before
  rejection,   \* the value the first rejected processTask promise holds
  invoked,     \* history: indices whose thunk was called, in call order
  settled,     \* history: indices whose task settled, in settlement order
  progress,    \* history: the calls received by onProgress
  writes,      \* history: indices assigned in results, in order
  spins,       \* history: iterations of the outer loop that admitted nothing
  other        \* << >>, or the state of a second call that is suspended

vars == << tasks, options, total, results, completed, failed, firstError,
           queue, inProgress, processing, pc, awaiting, thrown, rejection,
           invoked, settled, progress, writes, spins, other >>

\* const { concurrency = 5, failFast = false, onProgress = undefined } = options
concurrency ==
  IF options.concurrency = {} THEN DefaultConcurrency
  ELSE CHOOSE n \in options.concurrency : TRUE
failFast == options.failFast
onProgress == options.onProgress

Indices == 0..(total - 1)

\* The locals that processTask reads and writes, as one record.
Locals ==
  [ results |-> results, completed |-> completed, failed |-> failed,
    firstError |-> firstError, inProgress |-> inProgress,
    processing |-> processing, awaiting |-> awaiting, invoked |-> invoked,
    settled |-> settled, progress |-> progress, writes |-> writes,
    rejection |-> rejection ]

Commit(st) ==
  /\ results' = st.results
  /\ completed' = st.completed
  /\ failed' = st.failed
  /\ firstError' = st.firstError
  /\ inProgress' = st.inProgress
  /\ processing' = st.processing
  /\ awaiting' = st.awaiting
  /\ invoked' = st.invoked
  /\ settled' = st.settled
  /\ progress' = st.progress
  /\ writes' = st.writes
  /\ rejection' = st.rejection

\* Mutant: the value is appended (results.push) instead of stored at its index.
SetResult_push(st, taskIndex, value) ==
  [st EXCEPT !.results = [@ EXCEPT ![Len(st.writes)] = value],
             !.writes = Append(@, taskIndex)]

\* results[taskIndex] = value
SetResult(st, taskIndex, value) ==
  [st EXCEPT !.results = [@ EXCEPT ![taskIndex] = value],
             !.writes = Append(@, taskIndex)]

\* The error a throwing onProgress callback throws.
CallbackError == Err("onProgress failed")

\* onProgress?.(completed, total). A callback that throws does so inside the
\* finally block of the async processTask, whose promise is then rejected;
\* Promise.all keeps the first rejection only.
CallOnProgress(st, taskIndex) ==
  IF onProgress = "undefined" THEN st
  ELSE LET c == [st EXCEPT !.progress =
                   Append(@, [completed |-> st.completed, total |-> total,
                              taskIndex |-> taskIndex])]
       IN IF onProgress = "throws" /\ c.rejection = Null
          THEN [c EXCEPT !.rejection = CallbackError]
          ELSE c

\* Mutant: progress is reported without looking at the abort flag.
Finally_ignoresAbort(st, taskIndex) ==
  LET d == [st EXCEPT !.inProgress = @ \ {taskIndex},
                      !.settled = Append(@, taskIndex)]
  IN CallOnProgress([d EXCEPT !.completed = @ + 1], taskIndex)

\* finally { inProgress.delete(taskIndex); if (!failed) { completed++; ... } }
Finally(st, taskIndex) ==
  LET d == [st EXCEPT !.inProgress = @ \ {taskIndex},
                      !.settled = Append(@, taskIndex)]
  IN IF ~d.failed
     THEN CallOnProgress([d EXCEPT !.completed = @ + 1], taskIndex)
     ELSE d

\* catch (error) { if (failFast) { failed = true; firstError = ...; return }
\*                 results[taskIndex] = ... } finally { ... }
Catch(st, taskIndex, error) ==
  IF failFast
  THEN Finally([st EXCEPT !.failed = TRUE, !.firstError = ToError(error)],
               taskIndex)
  ELSE Finally(SetResult(st, taskIndex, ToError(error)), taskIndex)

\* Mutant: the value is stored without looking at the abort flag.
Fulfilled_alwaysWrites(st, taskIndex, result) ==
  Finally(SetResult(st, taskIndex, result), taskIndex)

\* const result = await task(); if (!failed) results[taskIndex] = result
Fulfilled(st, taskIndex, result) ==
  Finally(IF ~st.failed THEN SetResult(st, taskIndex, result) ELSE st,
          taskIndex)

\* Mutant: processTask does not look at the abort flag before starting.
ProcessTaskCall_noAbortGuard(st, taskIndex) ==
  IF taskIndex \in st.processing THEN st
  ELSE LET p == [st EXCEPT !.processing = @ \cup {taskIndex}]
       IN IF tasks[taskIndex].kind = "missing"
          THEN Catch(p, taskIndex,
                 Err("Task at index " \o NumberToString(taskIndex)
                     \o " is undefined"))
          ELSE [p EXCEPT !.invoked = Append(@, taskIndex),
                         !.awaiting = @ \cup {taskIndex}]

\* processTask(taskIndex) from its call to its first suspension: the guard,
\* processing.add, the check of the entry, and the call of the thunk.
ProcessTaskCall(st, taskIndex) ==
  IF st.failed \/ taskIndex \in st.processing THEN st
  ELSE LET p == [st EXCEPT !.processing = @ \cup {taskIndex}]
       IN IF tasks[taskIndex].kind = "missing"
          THEN Catch(p, taskIndex,
                 Err("Task at index " \o NumberToString(taskIndex)
                     \o " is undefined"))
          ELSE [p EXCEPT !.invoked = Append(@, taskIndex),
                         !.awaiting = @ \cup {taskIndex}]

\* processTask(taskIndex) from the settlement of task() to its end.
ProcessTaskSettle(st, taskIndex) ==
  LET a == [st EXCEPT !.awaiting = @ \ {taskIndex}]
  IN IF tasks[taskIndex].kind = "resolve"
     THEN Fulfilled(a, taskIndex, tasks[taskIndex].v)
     ELSE Catch(a, taskIndex, tasks[taskIndex].v)

\* Array.from(inProgress).map(processTask): the calls happen one after the
\* other, in the insertion order of the set.
RECURSIVE MapProcessTask(_, _)
MapProcessTask(st, order) ==
  IF order = << >> THEN st
  ELSE MapProcessTask(ProcessTaskCall(st, Head(order)), Tail(order))

\* Mutant: the window test is off by one (inProgress.size <= concurrency).
RECURSIVE Fill_offByOne(_, _, _)
Fill_offByOne(q, size, added) ==
  IF size <= concurrency /\ Len(q) > 0 /\ ~failed
  THEN Fill_offByOne(Tail(q), size + 1, Append(added, Head(q)))
  ELSE [queue |-> q, added |-> added]

\* Mutant: the index is shifted from the queue before the window is tested,
\* and dropped when the window is full.
RECURSIVE Fill_shiftBeforeTest(_, _, _)
Fill_shiftBeforeTest(q, size, added) ==
  IF Len(q) > 0 /\ ~failed
  THEN IF size < concurrency
       THEN Fill_shiftBeforeTest(Tail(q), size + 1, Append(added, Head(q)))
       ELSE [queue |-> Tail(q), added |-> added]
  ELSE [queue |-> q, added |-> added]

\* Mutant: the index is taken from the end of the queue (queue.pop()).
RECURSIVE Fill_pop(_, _, _)
Fill_pop(q, size, added) ==
  IF size < concurrency /\ Len(q) > 0 /\ ~failed
  THEN Fill_pop(SubSeq(q, 1, Len(q) - 1), size + 1, Append(added, q[Len(q)]))
  ELSE [queue |-> q, added |-> added]

\* The inner while loop: moves indices from the queue to inProgress while
\* inProgress.size < concurrency. Returns the new queue and the indices
\* added, in order.
RECURSIVE Fill(_, _, _)
Fill(q, size, added) ==
  IF size < concurrency /\ Len(q) > 0 /\ ~failed
  THEN Fill(Tail(q), size + 1, Append(added, Head(q)))
  ELSE [queue |-> q, added |-> added]

Range(s) == { s[k] : k \in 1..Len(s) }

\* Insertion order of inProgress once `added` was inserted: what it held
\* before (ascending, as the queue is), then the new indices.
RECURSIVE SetToSeq(_)
SetToSeq(S) ==
  IF S = {} THEN << >>
  ELSE LET m == CHOOSE x \in S : \A y \in S : x <= y
       IN << m >> \o SetToSeq(S \ {m})

\* The task lists of at most maxTasks entries of the given kinds.
TaskLists(maxTasks, kinds) ==
  UNION { [0..(n - 1) -> kinds] : n \in 0..maxTasks }

\* The state of a call on the list t with options o once its locals are
\* initialised (lines 17-28).
StartState(t, o) ==
  [ tasks |-> t, options |-> o,
    total |-> Cardinality(DOMAIN t),
    results |-> [i \in DOMAIN t |-> Hole],
    completed |-> 0, failed |-> FALSE, firstError |-> Null,
    queue |-> SetToSeq(DOMAIN t),
    inProgress |-> {}, processing |-> {},
    pc |-> "loop", awaiting |-> {}, thrown |-> Null, rejection |-> Null,
    invoked |-> << >>, settled |-> << >>, progress |-> << >>,
    writes |-> << >>, spins |-> 0 ]

\* The variables hold the state c of a call.
Load(c) ==
  /\ tasks = c.tasks
  /\ options = c.options
  /\ total = c.total
  /\ results = c.results
  /\ completed = c.completed
  /\ failed = c.failed
  /\ firstError = c.firstError
  /\ queue = c.queue
  /\ inProgress = c.inProgress
  /\ processing = c.processing
  /\ pc = c.pc
  /\ awaiting = c.awaiting
  /\ thrown = c.thrown
  /\ rejection = c.rejection
  /\ invoked = c.invoked
  /\ settled = c.settled
  /\ progress = c.progress
  /\ writes = c.writes
  /\ spins = c.spins

\* A call starts on one of the given lists with one of the given options.
StartFrom(lists, opts) ==
  \E t \in lists : \E o \in opts : Load(StartState(t, o))

\* A call starts on a list of at most maxTasks entries, with the given kinds
\* of onProgress.
Start(maxTasks, callbacks) ==
  StartFrom(TaskLists(maxTasks, TaskInputs),
            [concurrency : ConcurrencyInputs, failFast : BOOLEAN,
             onProgress : callbacks])

\* One call, with no onProgress or one that returns normally.
Init ==
  /\ Start(MaxTasks, {"undefined", "callback"})
  /\ other = << >>

\* One iteration of the outer loop that admits a wave and suspends at
\* `await Promise.all(...)`.
Dispatch ==
  /\ pc = "loop"
  /\ Len(queue) > 0 /\ ~failed
  /\ LET f == Fill(queue, Cardinality(inProgress), << >>)
         order == SetToSeq(inProgress) \o f.added
     IN /\ order # << >>
        /\ queue' = f.queue
        /\ Commit(MapProcessTask(
             [Locals EXCEPT !.inProgress = @ \cup Range(f.added)], order))
  /\ pc' = "await"
  /\ UNCHANGED << tasks, options, total, thrown, spins, other >>

\* One iteration of the outer loop in which inProgress stays empty: nothing
\* is awaited and the loop condition is evaluated again at once. Nothing the
\* condition reads has changed, so the loop has no last iteration: the count
\* of these iterations is kept within 1..MaxSpin by starting again at 1.
Spin ==
  /\ pc = "loop"
  /\ Len(queue) > 0 /\ ~failed
  /\ LET f == Fill(queue, Cardinality(inProgress), << >>)
     IN SetToSeq(inProgress) \o f.added = << >>
  /\ spins' = IF spins < MaxSpin THEN spins + 1 ELSE 1
  /\ UNCHANGED << tasks, options, total, results, completed, failed,
                  firstError, queue, inProgress, processing, pc, awaiting,
                  thrown, rejection, invoked, settled, progress, writes,
                  other >>

\* results.every((result) => result instanceof Error): every skips holes.
AllFailed == \A i \in Indices : results[i] = Hole \/ InstanceofError(results[i])

\* Mutant: the messages are joined in the order the results were written.
RECURSIVE JoinMessages_bySettlement(_)
JoinMessages_bySettlement(i) ==
  IF i >= Len(writes) THEN ""
  ELSE (IF i > 0 THEN ", " ELSE "")
       \o results[writes[i + 1]].s
       \o JoinMessages_bySettlement(i + 1)

\* results.map((e) => e.message).join(', '): a hole joins as the empty string.
RECURSIVE JoinMessages(_)
JoinMessages(i) ==
  IF i >= total THEN ""
  ELSE (IF i > 0 THEN ", " ELSE "")
       \o (IF results[i] = Hole THEN "" ELSE results[i].s)
       \o JoinMessages(i + 1)

\* The outer loop ends: the all-failed check and the return.
Finish ==
  /\ pc = "loop"
  /\ ~(Len(queue) > 0 /\ ~failed)
  /\ IF AllFailed
     THEN /\ pc' = "rejected"
          /\ thrown' = Err("All tasks failed to execute: " \o JoinMessages(0))
     ELSE /\ pc' = "resolved"
          /\ thrown' = thrown
  /\ UNCHANGED << tasks, options, total, results, completed, failed,
                  firstError, queue, inProgress, processing, awaiting,
                  rejection, invoked, settled, progress, writes, spins,
                  other >>

\* The promise of a started task settles and its processTask runs to its end.
Settle(taskIndex) ==
  /\ taskIndex \in awaiting
  /\ Commit(ProcessTaskSettle(Locals, taskIndex))
  /\ UNCHANGED << tasks, options, total, queue, pc, thrown, spins, other >>

\* Mutant: the abort is not propagated after the wave.
Resume_noThrow ==
  /\ pc = "await"
  /\ awaiting = {}
  /\ rejection = Null
  /\ pc' = "loop"
  /\ UNCHANGED << tasks, options, total, results, completed, failed,
                  firstError, queue, inProgress, processing, awaiting,
                  thrown, rejection, invoked, settled, progress, writes,
                  spins, other >>

\* Mutant: the abort is propagated as soon as it is set, without waiting for
\* the rest of the wave.
Resume_rejectsEarly ==
  /\ pc = "await"
  /\ awaiting = {} \/ failed
  /\ rejection = Null
  /\ IF failed /\ firstError # Null
     THEN /\ pc' = "rejected"
          /\ thrown' = firstError
     ELSE /\ pc' = "loop"
          /\ thrown' = thrown
  /\ UNCHANGED << tasks, options, total, results, completed, failed,
                  firstError, queue, inProgress, processing, awaiting,
                  rejection, invoked, settled, progress, writes, spins,
                  other >>

\* Mutant: asyncBatch goes on as soon as one slot of the window is free.
Resume_slidingWindow ==
  /\ pc = "await"
  /\ Cardinality(awaiting) < concurrency
  /\ rejection = Null
  /\ IF failed /\ firstError # Null
     THEN /\ pc' = "rejected"
          /\ thrown' = firstError
     ELSE /\ pc' = "loop"
          /\ thrown' = thrown
  /\ UNCHANGED << tasks, options, total, results, completed, failed,
                  firstError, queue, inProgress, processing, awaiting,
                  rejection, invoked, settled, progress, writes, spins,
                  other >>

\* Promise.all is fulfilled once every processTask of the wave has returned;
\* asyncBatch then throws firstError or goes back to the loop condition.
Resume ==
  /\ pc = "await"
  /\ awaiting = {}
  /\ rejection = Null
  /\ IF failed /\ firstError # Null
     THEN /\ pc' = "rejected"
          /\ thrown' = firstError
     ELSE /\ pc' = "loop"
          /\ thrown' = thrown
  /\ UNCHANGED << tasks, options, total, results, completed, failed,
                  firstError, queue, inProgress, processing, awaiting,
                  rejection, invoked, settled, progress, writes, spins,
                  other >>

Next ==
  \/ Dispatch
  \/ Spin
  \/ Finish
  \/ \E taskIndex \in DOMAIN tasks : Settle(taskIndex)
  \/ Resume

Spec == Init /\ [][Next]_vars

\* The event loop runs every continuation that is ready, and every started
\* task settles.
FairSpec ==
  /\ Spec
  /\ WF_vars(Dispatch) /\ WF_vars(Spin) /\ WF_vars(Finish) /\ WF_vars(Resume)
  /\ \A taskIndex \in 0..MaxTasks : WF_vars(Settle(taskIndex))

\* Promise.all is rejected as soon as one processTask promise is: asyncBatch
\* leaves its await by throwing that value, whatever is still running.
ResumeRejected ==
  /\ pc = "await"
  /\ rejection # Null
  /\ pc' = "rejected"
  /\ thrown' = rejection
  /\ UNCHANGED << tasks, options, total, results, completed, failed,
                  firstError, queue, inProgress, processing, awaiting,
                  rejection, invoked, settled, progress, writes, spins,
                  other >>

\* One call whose onProgress callback may throw.
InitThrow ==
  /\ Start(MaxTasks, {"undefined", "callback", "throws"})
  /\ other = << >>

NextThrow == Next \/ ResumeRejected

SpecThrow == InitThrow /\ [][NextThrow]_vars


\* ------------------------------------------------- two overlapping calls
\* Every local of asyncBatch is declared inside the function (lines 17-28)
\* and the module has no variable of its own, so each call has its own copy
\* of the whole state. Two calls that overlap share the event loop only: the
\* variables hold the call whose continuation runs, `other` holds the call
\* that is suspended, and the event loop may pass from one to the other
\* between any two continuations.
PairMaxTasks == 2

PairTaskInputs == { Resolves(Num(1)), Rejects(Num(404)) }

PairOptionInputs ==
  [concurrency : { {n} : n \in 0..PairMaxTasks }, failFast : BOOLEAN,
   onProgress : {"callback"}]

\* The state of the call that is running.
Call ==
  [ tasks |-> tasks, options |-> options, total |-> total,
    results |-> results, completed |-> completed, failed |-> failed,
    firstError |-> firstError, queue |-> queue, inProgress |-> inProgress,
    processing |-> processing, pc |-> pc, awaiting |-> awaiting,
    thrown |-> thrown, rejection |-> rejection, invoked |-> invoked,
    settled |-> settled, progress |-> progress, writes |-> writes,
    spins |-> spins ]

\* Mutant: the completed counter is a variable of the module, shared by the
\* calls.
Switch_sharedCompleted ==
  /\ other # << >>
  /\ tasks' = other[1].tasks
  /\ options' = other[1].options
  /\ total' = other[1].total
  /\ results' = other[1].results
  /\ completed' = completed
  /\ failed' = other[1].failed
  /\ firstError' = other[1].firstError
  /\ queue' = other[1].queue
  /\ inProgress' = other[1].inProgress
  /\ processing' = other[1].processing
  /\ pc' = other[1].pc
  /\ awaiting' = other[1].awaiting
  /\ thrown' = other[1].thrown
  /\ rejection' = other[1].rejection
  /\ invoked' = other[1].invoked
  /\ settled' = other[1].settled
  /\ progress' = other[1].progress
  /\ writes' = other[1].writes
  /\ spins' = other[1].spins
  /\ other' = << Call >>

\* The event loop passes from the running call to the suspended one.
Switch ==
  /\ other # << >>
  /\ tasks' = other[1].tasks
  /\ options' = other[1].options
  /\ total' = other[1].total
  /\ results' = other[1].results
  /\ completed' = other[1].completed
  /\ failed' = other[1].failed
  /\ firstError' = other[1].firstError
  /\ queue' = other[1].queue
  /\ inProgress' = other[1].inProgress
  /\ processing' = other[1].processing
  /\ pc' = other[1].pc
  /\ awaiting' = other[1].awaiting
  /\ thrown' = other[1].thrown
  /\ rejection' = other[1].rejection
  /\ invoked' = other[1].invoked
  /\ settled' = other[1].settled
  /\ progress' = other[1].progress
  /\ writes' = other[1].writes
  /\ spins' = other[1].spins
  /\ other' = << Call >>

PairInit ==
  /\ StartFrom(TaskLists(PairMaxTasks, PairTaskInputs), PairOptionInputs)
  /\ \E t \in TaskLists(PairMaxTasks, PairTaskInputs) :
       \E o \in PairOptionInputs : other = << StartState(t, o) >>

PairNext == Next \/ Switch

PairSpec == PairInit /\ [][PairNext]_vars

\* ------------------------------------------------------------ properties
Terminated == pc \in {"resolved", "rejected"}

IsFailure(i) == tasks[i].kind # "resolve"

\* What task i produces: its value, or the Error its failure is recorded as.
ExpectedOutcome(i) ==
  CASE tasks[i].kind = "resolve" -> tasks[i].v
    [] tasks[i].kind = "reject" ->
         IF tasks[i].v.t = "Error" THEN tasks[i].v
         ELSE Err(String(tasks[i].v))
    [] OTHER -> Err("Task at index " \o NumberToString(i) \o " is undefined")

\* Positions of the settlement order at which a task failed.
FailurePositions == { k \in 1..Len(settled) : IsFailure(settled[k]) }
SomeFailure == FailurePositions # {}
FirstFailurePosition == CHOOSE k \in FailurePositions : \A j \in FailurePositions : k <= j

Ascending(s) == \A a, b \in 1..Len(s) : a < b => s[a] < s[b]

\* C1: when the run resolves, the returned list has one entry per task and
\* entry i is what task i produced (its value, or with failFast off the
\* Error recorded for it), whatever the order of settlement.
C1_ResultsIndexAligned ==
  pc = "resolved" =>
    /\ DOMAIN results = DOMAIN tasks
    /\ \A i \in DOMAIN tasks :
         /\ results[i] = ExpectedOutcome(i)
         /\ failFast => ~IsFailure(i)

C1_Witness ==
  /\ pc = "resolved"
  /\ Len(settled) >= 3
  /\ settled[1] > settled[2]
  /\ \E i, j \in DOMAIN tasks : results[i].t = "number" /\ IsFailure(j)

\* C2: with concurrency k >= 1, at most k started tasks are unsettled and
\* inProgress never holds more than k indices.
C2_AtMostKInFlight ==
  concurrency >= 1 =>
    /\ Cardinality(awaiting) <= concurrency
    /\ Cardinality(inProgress) <= concurrency

C2_Witness ==
  /\ concurrency = 2
  /\ Cardinality(awaiting) = 2
  /\ Cardinality(inProgress) = 2
  /\ Len(queue) > 0

\* C3: in fail-fast mode the run rejects with the failure that came first
\* in settlement order; later failures of the wave never replace it.
C3_FirstFailureIsReported ==
  (failFast /\ pc = "rejected" /\ failed) =>
    thrown = ExpectedOutcome(settled[FirstFailurePosition])

\* C4: a call with an empty task list resolves with an empty list: it does
\* not reject and onProgress is never invoked.
C4_EmptyListResolves ==
  Cardinality(DOMAIN tasks) = 0 => (pc # "rejected" /\ progress = << >>)

\* C5: with concurrency < 1 the call fails before any task is invoked and
\* does not hang: the loop never iterates without admitting a task, and the
\* call never ends otherwise than by rejecting.
C5_BadConcurrencyRejected ==
  concurrency < 1 =>
    (invoked = << >> /\ spins = 0 /\ pc # "resolved")

\* C6: with failFast on, once a task has failed the run never goes back to
\* dispatching and never resolves: it waits for the wave and rejects.
C6_FailFastNeverResolves ==
  (failFast /\ SomeFailure) => pc \in {"await", "rejected"}

C6_Witness ==
  /\ failFast /\ pc = "rejected"
  /\ total >= 2
  /\ queue = << >>
  /\ IsFailure(total - 1)
  /\ writes # << >>
  /\ settled[Len(settled)] # total - 1

\* C7: with failFast off and a non-empty list, the run rejects only if no
\* task succeeded, whatever the successful tasks' values are.
C7_RejectsOnlyIfNoSuccess ==
  (~failFast /\ Cardinality(DOMAIN tasks) > 0 /\ concurrency >= 1
     /\ pc = "rejected")
    => \A i \in DOMAIN tasks : IsFailure(i)

\* The task errors' messages in index order, joined by ", ".
RECURSIVE ExpectedMessages(_)
ExpectedMessages(n) ==
  IF n = 0 THEN ""
  ELSE IF n = 1 THEN ExpectedOutcome(0).s
  ELSE ExpectedMessages(n - 1) \o ", " \o ExpectedOutcome(n - 1).s

\* C8: with failFast off, if every task of a non-empty list fails, the run
\* rejects with one new error whose message is "All tasks failed to
\* execute: " and the task errors' messages in index order joined by ", ".
C8_AggregateError ==
  (~failFast /\ Cardinality(DOMAIN tasks) > 0 /\ concurrency >= 1
     /\ (\A i \in DOMAIN tasks : IsFailure(i)) /\ Terminated)
    => /\ pc = "rejected"
       /\ thrown = Err("All tasks failed to execute: "
                       \o ExpectedMessages(Cardinality(DOMAIN tasks)))
       /\ \A i \in DOMAIN tasks : thrown # ExpectedOutcome(i)

C8_Witness ==
  /\ ~failFast /\ pc = "rejected"
  /\ total = 3
  /\ \A i \in DOMAIN tasks : IsFailure(i)
  /\ settled[1] = 2 /\ settled[2] = 0
  /\ ExpectedOutcome(0).s # ExpectedOutcome(2).s

\* The number of settlements onProgress reports: all of them when failFast
\* is off, those before the first failure when it is on.
ReportedSettlements ==
  IF failFast /\ SomeFailure THEN FirstFailurePosition - 1 ELSE Len(settled)

\* C9: onProgress is called once per settlement, in settlement order, with
\* total = tasks.length and completed = 1, 2, ...; with failFast off a run
\* that ends has reported every task; with failFast on the task that
\* triggers the abort and the tasks settling after it are not reported.
C9_ProgressSequence ==
  onProgress = "callback" =>
    /\ Len(progress) = ReportedSettlements
    /\ \A k \in 1..Len(progress) :
         progress[k] = [completed |-> k,
                        total |-> Cardinality(DOMAIN tasks),
                        taskIndex |-> settled[k]]
    /\ (~failFast /\ Terminated /\ concurrency >= 1)
         => Len(progress) = Cardinality(DOMAIN tasks)

C9_Witness ==
  /\ onProgress = "callback" /\ ~failFast /\ Terminated
  /\ Len(progress) = 3
  /\ progress[1].taskIndex = 2 /\ progress[3].taskIndex = 1

\* C10: with concurrency = 1, a task is started only when every task before
\* it has settled, so tasks are invoked, settle and are recorded in input
\* order.
C10_SequentialOrder ==
  concurrency = 1 =>
    /\ Cardinality(awaiting) <= 1
    /\ \A j \in Range(invoked) : \A i \in 0..(j - 1) : i \in Range(settled)
    /\ settled = [k \in 1..Len(settled) |-> k - 1]
    /\ Ascending(invoked)
    /\ Ascending(writes)

C10_Witness ==
  /\ concurrency = 1
  /\ pc = "resolved"
  /\ invoked = << 0, 1, 2 >>
  /\ settled = << 0, 1, 2 >>

NoDuplicates(s) == \A a, b \in 1..Len(s) : a # b => s[a] # s[b]

HoldsThunk(i) == tasks[i].kind # "missing"

\* C11 as stated: when the call has ended, every thunk of the list has been
\* invoked exactly once.
C11_EveryThunkInvokedOnce ==
  Terminated =>
    \A i \in DOMAIN tasks :
      HoldsThunk(i) => Cardinality({ k \in 1..Len(invoked) : invoked[k] = i }) = 1

\* The call ended by leaving the outer loop: it resolved, or it rejected
\* with the all-failed error (not by an abort, not by a throwing callback).
RanToTheEnd ==
  pc = "resolved" \/ (pc = "rejected" /\ ~failed /\ rejection = Null)

\* C11 (amended): no thunk is ever invoked twice, a missing entry is never
\* invoked, and when the call resolves or rejects with the all-failed error
\* every thunk of the list has been invoked.
C11_InvokedAtMostOnce ==
  /\ NoDuplicates(invoked)
  /\ \A i \in Range(invoked) : HoldsThunk(i)
  /\ RanToTheEnd =>
       \A i \in DOMAIN tasks : HoldsThunk(i) => i \in Range(invoked)

C11_Witness ==
  /\ RanToTheEnd
  /\ concurrency = 2
  /\ Len(invoked) = 3
  /\ settled[1] = 1

\* Indices at which a missing entry has failed.
SettledMissing == { m \in Range(settled) : ~HoldsThunk(m) }

\* C12: once the abort flag is set it stays set, no index leaves the queue
\* and no thunk is invoked any more; in the wave in which a failure sets the
\* flag synchronously, the indices after it are not invoked either.
C12_NoDispatchAfterAbort ==
  [][ /\ failed => (failed' /\ queue' = queue /\ invoked' = invoked)
      /\ failFast =>
           \A m \in SettledMissing' : \A j \in Range(invoked') : j < m
    ]_vars

C12_Witness ==
  /\ failed /\ pc = "rejected"
  /\ invoked # << >>
  /\ \E i \in inProgress : i \notin processing /\ HoldsThunk(i)

\* C13: in fail-fast mode the run has not rejected while a task started in
\* the aborting wave is still unsettled: the rejection comes after the drain.
C13_RejectsAfterDrain ==
  (failFast /\ failed /\ pc = "rejected") =>
    /\ awaiting = {}
    /\ \A i \in Range(invoked) : i \in Range(settled)

C13_Witness ==
  /\ failFast /\ failed /\ pc = "rejected"
  /\ HoldsThunk(settled[FirstFailurePosition])
  /\ FirstFailurePosition = 1
  /\ Len(settled) = 3

\* C14: every call eventually resolves or rejects, given that every started
\* task settles, for every task list and every concurrency value.
C14_EventuallyEnds == <>Terminated

\* C15: an index leaves the queue, and a thunk is invoked, only when no task
\* of the previous wave is unsettled and inProgress is empty: a slot freed
\* inside a wave is not reused before the wave has drained.
C15_WaveDrainsBeforeRefill ==
  [][ (queue' # queue \/ invoked' # invoked) =>
        (awaiting = {} /\ inProgress = {}) ]_vars

C15_Witness ==
  /\ pc = "await"
  /\ concurrency = 2
  /\ Len(queue) > 0
  /\ Cardinality(awaiting) = 1
  /\ Cardinality(inProgress) = 1
  /\ Len(settled) = 1

\* C16: thunks are invoked in strictly ascending index order, and an index
\* is started (entered in processing) only when every smaller index was.
C16_AscendingStart ==
  /\ Ascending(invoked)
  /\ \A j \in processing : \A i \in 0..(j - 1) : i \in processing
  /\ Range(invoked) \subseteq processing

C16_Witness ==
  /\ concurrency = 2
  /\ invoked = << 0, 1, 2 >>
  /\ settled[1] = 1

\* C17: a step that sets the abort flag, and every step after it, leaves
\* results, completed and the calls of onProgress unchanged (the failing
\* task and the tasks that succeed after the abort write nothing), and no
\* index of results is ever written twice.
C17_NothingRecordedAfterAbort ==
  [][ /\ (failed \/ failed') =>
           (results' = results /\ completed' = completed
              /\ progress' = progress /\ writes' = writes)
      /\ NoDuplicates(writes')
    ]_vars

C17_Witness ==
  /\ failed
  /\ writes # << >> /\ progress # << >>
  /\ \E k \in 1..Len(settled) :
       /\ k > FirstFailurePosition
       /\ ~IsFailure(settled[k])
       /\ results[settled[k]] = Hole

\* The errors of the failures that have settled so far.
SettledFailureErrors ==
  { ExpectedOutcome(settled[k]) : k \in FailurePositions }

\* C18: a failure recorded in results, and the error a fail-fast abort
\* keeps and rejects with, is an Error: the rejected Error itself when the
\* task rejected with one, otherwise a new Error whose message is the string
\* form of the rejected value.
C18_FailuresAreErrors ==
  /\ \A i \in Range(writes) :
       IsFailure(i) =>
         /\ InstanceofError(results[i])
         /\ results[i] = ExpectedOutcome(i)
  /\ failed =>
       /\ InstanceofError(firstError)
       /\ firstError \in SettledFailureErrors
  /\ (failed /\ pc = "rejected") => thrown = firstError

C18_Witness ==
  /\ ~failFast /\ Terminated
  /\ \E i, j \in DOMAIN tasks :
       /\ tasks[i] = Rejects(Num(404)) /\ results[i] = Err("404")
       /\ tasks[j] = Rejects(Err("Error 1")) /\ results[j] = Err("Error 1")

\* C20: when the call resolves or rejects, no started task is unsettled,
\* whatever the tasks and the onProgress callback do.
C20_NothingRunningAtTheEnd ==
  Terminated => (awaiting = {} /\ \A i \in Range(invoked) : i \in Range(settled))

LastFailurePosition ==
  CHOOSE k \in FailurePositions : \A j \in FailurePositions : j <= k

\* What a call that runs alone rejects with, given the order in which its
\* own tasks settled.
SoloRejection ==
  IF failed THEN ExpectedOutcome(settled[LastFailurePosition])
  ELSE Err("All tasks failed to execute: "
           \o ExpectedMessages(Cardinality(DOMAIN tasks)))

\* C19: while two calls overlap and their settlements interleave, the
\* running call's in-flight bound, abort flag, progress sequence and final
\* result or error are those its own tasks, options and settlement order
\* give when it runs alone.
C19_CallsAreIndependent ==
  /\ Cardinality(awaiting) <= concurrency
  /\ Cardinality(inProgress) <= concurrency
  /\ failed = (failFast /\ SomeFailure)
  /\ completed = ReportedSettlements
  /\ progress = [k \in 1..ReportedSettlements |->
                   [completed |-> k, total |-> Cardinality(DOMAIN tasks),
                    taskIndex |-> settled[k]]]
  /\ pc = "resolved" => results = [i \in DOMAIN tasks |-> ExpectedOutcome(i)]
  /\ pc = "rejected" => thrown = SoloRejection

C19_Witness ==
  /\ other # << >>
  /\ pc = "await" /\ other[1].pc = "await"
  /\ Len(settled) = 1 /\ awaiting # {}
  /\ Len(other[1].settled) = 1 /\ other[1].awaiting # {}
  /\ progress # << >> /\ other[1].progress # << >>

\* Indices of results that hold an outcome.
WrittenIndices == { i \in DOMAIN results : results[i] # Hole }

\* C21: the completed counter equals the number of indices whose outcome
\* has been written in results, it never exceeds tasks.length, and when a
\* call on a non-empty list resolves it equals tasks.length.
C21_CompletedCountsWrites ==
  /\ completed = Cardinality(WrittenIndices)
  /\ WrittenIndices = Range(writes)
  /\ completed <= Cardinality(DOMAIN tasks)
  /\ (pc = "resolved" /\ Cardinality(DOMAIN tasks) > 0)
       => completed = Cardinality(DOMAIN tasks)

C21_Witness ==
  /\ failFast /\ failed
  /\ completed = 1
  /\ Len(settled) = 3
  /\ Cardinality(WrittenIndices) = 1

Min(a, b) == IF a <= b THEN a ELSE b

\* C22: with concurrency c >= 1, whenever the fill loop takes indices from
\* the queue inProgress is empty, the number of indices taken before is a
\* multiple of c, and the wave taken is exactly w*c .. min((w+1)*c, total)-1
\* for w the number of earlier waves; every wave but the last has c indices.
C22_WavesAreAligned ==
  [][ (queue' # queue /\ concurrency >= 1) =>
        LET n == Cardinality(DOMAIN tasks)
            start == n - Len(queue)
            w == start \div concurrency
        IN /\ ~failed
           /\ inProgress = {}
           /\ start = w * concurrency
           /\ Range(queue) \ Range(queue')
                = (w * concurrency)..(Min((w + 1) * concurrency, n) - 1)
           /\ Len(queue') > 0 => Len(queue) - Len(queue') = concurrency
    ]_vars

C22_Witness ==
  /\ concurrency = 2
  /\ Cardinality(DOMAIN tasks) = 3
  /\ pc = "await"
  /\ queue = << >>
  /\ inProgress = {2}
  /\ Len(settled) = 2

MissingMessage(i) == "Task at index " \o NumberToString(i) \o " is undefined"

\* C23: a missing entry at index i that processTask reaches is a failure of
\* task i with the message "Task at index i is undefined": with failFast off
\* that Error is recorded at index i and progress is reported for it; with
\* failFast on, when it is the failure that triggers the abort, the run
\* rejects with that Error; and no processTask promise is ever rejected.
C23_MissingEntryFollowsPolicy ==
  /\ rejection = Null
  /\ ~failFast =>
       \A i \in SettledMissing :
         /\ results[i] = Err(MissingMessage(i))
         /\ onProgress = "callback" =>
              \E k \in 1..Len(progress) : progress[k].taskIndex = i
  /\ (failFast /\ pc = "rejected" /\ failed
        /\ ~HoldsThunk(settled[FirstFailurePosition]))
       => thrown = Err(MissingMessage(settled[FirstFailurePosition]))

====
